---- MODULE Spec2Model ----
(***************************************************************************)
(* A model of gale (benihime91/litcv): the optimisation set-up of          *)
(* DefaultTask (gale/core_classes.py), the loss builder and the forward of *)
(* the losses (gale/core/nn/losses.py), the dataframe helpers              *)
(* (gale/collections/pandas.py) and the logger set-up                      *)
(* (gale/utils/logger.py).                                                 *)
(*                                                                         *)
(* Python values.  An Optional[int] is a sequence: None is <<>> and the    *)
(* int n is <<n>>.  Objects are records with a kind field; fastcore's noop *)
(* marker and the None object are two of them.  A config value (an init    *)
(* argument) is Scalar(n) or List(seq).  Floats that the code multiplies   *)
(* are exact fractions num/den.                                            *)
(***************************************************************************)
EXTENDS Integers, Sequences, FiniteSets, TLC

VARIABLES
    _trainer,      \* DefaultTask._trainer: Noop or a Trainer record
    _cfg,          \* DefaultTask._cfg.optimization: a config, or NoneObject when absent
    _train_dl,     \* DefaultTask._train_dl: Noop or a DataLoader record
    _model,        \* DefaultTask._model: Noop or a model with hypers.lr
    _optimizer,    \* DefaultTask._optimizer
    _scheduler,    \* DefaultTask._scheduler
    is_restored,   \* DefaultTask.is_restored
    op,            \* the last task operation called
    arg,           \* the optimisation config that operation worked on
    err,           \* the exception it raised, "None" when it returned
    calls,         \* the methods it called, in order
    ret,           \* what it returned
    LOSS_REGISTRY, \* losses.LOSS_REGISTRY: the registered names
    lossOp,        \* the last operation on the losses
    lossConfig,    \* the config build_loss was given
    lossErr,       \* the exception it raised, "None" when it returned
    lossRet,       \* the class resolved, the constructor call made, the loss returned
    frame,         \* the caller's DataFrame: its rows, each with its index label
    dataOp,        \* the last dataframe operation called
    dataArg,       \* its arguments
    dataErr,       \* the exception it raised, "None" when it returned
    dataRet,       \* what it returned
    loggers,       \* logging's loggers by name: level, propagate, handlers
    lru_cache,     \* the calls that setup_logger's lru_cache holds a result for
    logCall,       \* the last call of setup_logger
    logRet,        \* the name of the logger it returned
    input,         \* the logits given to a loss's forward
    target,        \* the targets given to it
    criterion,     \* the loss module whose forward was called last
    forwardErr,    \* the exception it raised and the line that raised it
    forwardRet     \* the loss it returned

taskVars == <<_trainer, _cfg, _train_dl, _model, _optimizer, _scheduler,
              is_restored, op, arg, err, calls, ret>>

lossVars == <<LOSS_REGISTRY, lossOp, lossConfig, lossErr, lossRet>>
dataVars == <<frame, dataOp, dataArg, dataErr, dataRet>>
loggerVars == <<loggers, lru_cache, logCall, logRet>>
forwardVars == <<input, target, criterion, forwardErr, forwardRet>>
nonTaskVars == <<lossVars, dataVars, loggerVars, forwardVars>>
nonLossVars == <<taskVars, dataVars, loggerVars, forwardVars>>
nonDataVars == <<taskVars, lossVars, loggerVars, forwardVars>>
nonLoggerVars == <<taskVars, lossVars, dataVars, forwardVars>>
nonForwardVars == <<taskVars, lossVars, dataVars, loggerVars>>

-----------------------------------------------------------------------------
(* Values *)

None == <<>>
Some(n) == <<n>>
Val(x) == x[1]
Noop == [kind |-> "noop"]
NoneObject == [kind |-> "None"]
NoneName == "None"
Scalar(n) == [t |-> "scalar", v |-> <<n>>]
List(s) == [t |-> "list", v |-> s]
IntLimit(n) == [t |-> "int", num |-> n, den |-> 1]
FloatLimit(n, d) == [t |-> "float", num |-> n, den |-> d]
DataLoader(n) == [kind |-> "DataLoader", len |-> n]
Max(a, b) == IF a >= b THEN a ELSE b

\* fastcore.ifnone(a, b): b if a is None else a
ifnone(a, b) == IF a = NoneObject THEN b ELSE a

\* F applied to the value of v, which is evaluated once
Bind(v, F(_)) == CHOOSE x \in {F(y) : y \in {v}} : TRUE

\* an exception propagating out of a call
Raise(e, c) == [err |-> e, kind |-> "raise", v |-> <<>>, calls |-> c]

-----------------------------------------------------------------------------
(* Bounds of the inputs *)

MaxEpochs == 2
MaxStepCap == 1
MaxAccum == 2
MaxGpus == 2
MaxProcesses == 2
MaxDataset == 4
MaxRows == 4
MaxFolds == 3
MaxSetups == 3
MaxFloat == 8

-----------------------------------------------------------------------------
(* DefaultTask.num_training_steps *)

\* lines 541-544: max(1, num_gpus, num_processes), raised to tpu_cores when truthy
num_devices(tr) ==
    LET d == Max(1, Max(tr.num_gpus, tr.num_processes))
    IN  IF tr.tpu_cores # None /\ Val(tr.tpu_cores) # 0
        THEN Max(d, Val(tr.tpu_cores))
        ELSE d

\* lines 530-539: the integer cap, the fraction of len(train_dl), or len(train_dl)
dataset_size(tr, dl) ==
    LET l == tr.limit_train_batches
    IN  IF l.t = "int" /\ l.num # 0 THEN l.num
        ELSE IF l.t = "float" THEN (dl.len * l.num) \div l.den
        ELSE dl.len

\* line 546
effective_batch_size(tr) == tr.accumulate_grad_batches * num_devices(tr)

\* line 551: max_steps is truthy and below the estimate
StepCapWins(tr, est) ==
    tr.max_steps # None /\ Val(tr.max_steps) # 0 /\ Val(tr.max_steps) < est

\* The whole method.  It returns the bare int max_steps when the cap wins
\* (line 552) and the pair (max_estimated_steps, dataset_size) otherwise
\* (line 553); len() of the noop marker and int * None raise TypeError.
num_training_steps(tr, dl) ==
    IF tr = Noop THEN Raise("AttributeError", <<"num_training_steps">>)
    ELSE IF ~(tr.limit_train_batches.t = "int" /\ tr.limit_train_batches.num # 0)
            /\ dl = Noop
    THEN Raise("TypeError", <<"num_training_steps">>)
    ELSE IF tr.max_epochs = None
    THEN Raise("TypeError", <<"num_training_steps">>)
    ELSE LET ds == dataset_size(tr, dl)
             max_estimated_steps ==
                 (ds \div effective_batch_size(tr)) * Val(tr.max_epochs)
         IN  IF StepCapWins(tr, max_estimated_steps)
             THEN [err |-> "None", kind |-> "int", v |-> <<Val(tr.max_steps)>>,
                   calls |-> <<"num_training_steps">>]
             ELSE [err |-> "None", kind |-> "tuple",
                   v |-> <<max_estimated_steps, ds>>,
                   calls |-> <<"num_training_steps">>]

-----------------------------------------------------------------------------
(* DefaultTask.process_optim_config *)

\* line 318: the error raised when neither is set, a ValueError, which the
\* specification's taxonomy calls ConfigurationError
ConfigurationError == "ValueError"

\* line 317: neither max_epochs nor max_steps is set on the trainer
MissingEpochsAndSteps_inverted(tr) == tr.max_epochs # None /\ tr.max_steps # None
MissingEpochsAndSteps(tr) == tr.max_epochs = None /\ tr.max_steps = None

\* lines 330-332: a top-level field below 1 takes the inferred value
FillTopLevel(conf, steps, max_steps, max_epochs) ==
    [conf EXCEPT
        !.steps_per_epoch = IF @ < 1 THEN steps ELSE @,
        !.max_steps = IF @ < 1 THEN max_steps ELSE @,
        !.max_epochs = IF @ < 1 THEN max_epochs ELSE @]

\* one of the four blocks of lines 344-378: a key that is present and -1
FillSentinel(args, key, value) ==
    IF key \in DOMAIN args /\ args[key] = Scalar(-1)
    THEN [args EXCEPT ![key] = Scalar(value)]
    ELSE args

\* lines 344-378 with the epochs block writing max_steps
FillSchedulerArgs_epochsFromSteps(args, steps, max_steps, max_epochs) ==
    FillSentinel(FillSentinel(FillSentinel(FillSentinel(args,
        "max_iters", max_steps), "epochs", max_steps),
        "steps_per_epoch", steps), "max_steps", max_steps)

\* lines 344-378: max_iters and max_steps <- max_steps, epochs <- max_epochs,
\* steps_per_epoch <- steps
FillSchedulerArgs(args, steps, max_steps, max_epochs) ==
    FillSentinel(FillSentinel(FillSentinel(FillSentinel(args,
        "max_iters", max_steps), "epochs", max_epochs),
        "steps_per_epoch", steps), "max_steps", max_steps)

\* lines 322-380, once num_training_steps has returned or raised r
ResolveFrom(opt_conf, tr, r) ==
    LET c == <<"process_optim_config">> \o r.calls
    IN  IF r.err # "None" THEN Raise(r.err, c)
        \* line 322: max_steps, steps = <int> cannot be unpacked
        ELSE IF r.kind # "tuple" THEN Raise("TypeError", c)
        \* line 323: max_steps // steps is evaluated before ifnone is called
        ELSE IF r.v[2] = 0 THEN Raise("ZeroDivisionError", c)
        ELSE LET max_steps == r.v[1]
                 steps == r.v[2]
                 max_epochs == IF tr.max_epochs # None
                               THEN Val(tr.max_epochs)
                               ELSE max_steps \div steps
             IN  [err |-> "None", kind |-> "conf",
                  v |-> <<[FillTopLevel(opt_conf, steps, max_steps, max_epochs)
                             EXCEPT !.scheduler.init_args =
                                 FillSchedulerArgs(@, steps, max_steps, max_epochs)]>>,
                  calls |-> c]

\* The whole method: the result's v holds the returned config.
process_optim_config(opt_conf, tr, dl) ==
    IF tr = Noop THEN Raise("AttributeError", <<"process_optim_config">>)
    ELSE IF MissingEpochsAndSteps(tr)
    THEN Raise(ConfigurationError, <<"process_optim_config">>)
    ELSE Bind(num_training_steps(tr, dl), LAMBDA r : ResolveFrom(opt_conf, tr, r))

-----
(* DefaultTask.build_optimizer, build_lr_scheduler, setup_optimization *)

\* lines 416-431: None for an unset name, else the registered optimizer
build_optimizer(opt_conf) ==
    IF opt_conf.optimizer.name = NoneName THEN NoneObject
    ELSE [kind |-> "optimizer", name |-> opt_conf.optimizer.name,
          init_args |-> opt_conf.optimizer.init_args]

\* lines 458-464: a list value is copied, a max_lr that is no list is
\* replaced by the model's lr, anything else is passed on
SchedulerKwds(d_args, max_lrs) ==
    [key \in DOMAIN d_args |->
        IF d_args[key].t = "list" THEN d_args[key]
        ELSE IF key = "max_lr" THEN max_lrs
        ELSE d_args[key]]

\* The scheduler constructors live outside this module's source; one given
\* no optimizer may reject it (torch's schedulers raise TypeError) or
\* construct.
SchedulerCtorOutcomes(optimizer) ==
    IF optimizer = NoneObject THEN {"None", "TypeError"} ELSE {"None"}

\* lines 441-480; ctor is the constructor's outcome
build_lr_scheduler(opt_conf, optimizer, mdl, ctor) ==
    IF mdl = Noop THEN Raise("AttributeError", <<"build_lr_scheduler">>)
    ELSE IF opt_conf.scheduler.name = NoneName
    THEN [err |-> "None", kind |-> "None", v |-> <<NoneObject>>,
          calls |-> <<"build_lr_scheduler">>]
    ELSE IF ctor # "None"
    THEN Raise(ctor, <<"build_lr_scheduler", "scheduler_ctor">>)
    ELSE [err |-> "None", kind |-> "dict",
          v |-> <<[kind |-> "scheduler",
                   scheduler |-> [name |-> opt_conf.scheduler.name,
                                  optimizer |-> optimizer,
                                  kwds |-> SchedulerKwds(opt_conf.scheduler.init_args,
                                                         mdl.lr)],
                   interval |-> opt_conf.scheduler.interval,
                   monitor |-> opt_conf.scheduler.monitor]>>,
          calls |-> <<"build_lr_scheduler", "scheduler_ctor">>]

\* lines 406-409, once process_optim_config has returned the config conf
BuildFrom(opt_conf, conf, c1, ctor) ==
    Bind(build_optimizer(conf), LAMBDA o :
        Bind(build_lr_scheduler(conf, o, _model, ctor), LAMBDA s :
            [optimizer |-> o,
             scheduler |-> IF s.err # "None" THEN _scheduler ELSE s.v[1],
             err |-> s.err, conf |-> opt_conf,
             calls |-> c1 \o <<"build_optimizer">> \o s.calls]))

\* lines 388-409: the task's optimizer and scheduler after the call, with
\* the exception raised and the config worked on
setup_optimization(conf, ctor) ==
    LET opt_conf == IF conf = NoneObject THEN _cfg ELSE conf
    IN  IF opt_conf = NoneObject
        THEN [optimizer |-> NoneObject, scheduler |-> NoneObject, err |-> "None",
              conf |-> NoneObject, calls |-> <<"setup_optimization">>]
        ELSE Bind(process_optim_config(opt_conf, _trainer, _train_dl), LAMBDA p :
                IF p.err # "None"
                THEN [optimizer |-> _optimizer, scheduler |-> _scheduler,
                      err |-> p.err, conf |-> opt_conf,
                      calls |-> <<"setup_optimization">> \o p.calls]
                ELSE BuildFrom(opt_conf, p.v[1],
                               <<"setup_optimization">> \o p.calls, ctor))

\* lines 282-285: the optimizer alone when the scheduler is None, else the
\* pair of lists
OptimizersAndSchedulers(s) ==
    [optimizer |-> s.optimizer, scheduler |-> s.scheduler, err |-> s.err,
     conf |-> s.conf, calls |-> <<"configure_optimizers">> \o s.calls,
     ret |-> IF s.err # "None" THEN NoneObject
             ELSE IF s.scheduler = NoneObject
             THEN [kind |-> "single", optimizer |-> s.optimizer]
             ELSE [kind |-> "pair", optimizers |-> <<s.optimizer>>,
                   schedulers |-> <<s.scheduler>>]]

\* lines 279-285: set up when nothing was set up yet, then return
configure_optimizers_setsUpAgain(ctor) ==
    Bind(setup_optimization(NoneObject, ctor), LAMBDA s : OptimizersAndSchedulers(s))
configure_optimizers(ctor) ==
    Bind(IF _optimizer = Noop /\ _scheduler = Noop
         THEN setup_optimization(NoneObject, ctor)
         ELSE [optimizer |-> _optimizer, scheduler |-> _scheduler,
               err |-> "None", conf |-> NoneObject, calls |-> <<>>],
         LAMBDA s : OptimizersAndSchedulers(s))

-----
(* The inputs: trainers, data loaders, models, optimisation configs *)

OptionalEpochs == {None} \cup {Some(n) : n \in 1..MaxEpochs}
\* a cap of a few steps, and the 1000 of the documented example
OptionalStepCaps == {None} \cup {Some(n) : n \in 1..MaxStepCap} \cup {Some(1000)}
\* an integer cap, no cap (0), the whole loader (1.0) and half of it (0.5)
LimitTrainBatches == {IntLimit(0), IntLimit(3), FloatLimit(1, 1), FloatLimit(1, 2)}
\* loader lengths: 1, a small one, and the 500 of the documented example
DatasetSizes == {1, MaxDataset, 500}
DataLoaders == {DataLoader(n) : n \in DatasetSizes}

Trainers ==
    [kind : {"Trainer"}, max_epochs : OptionalEpochs, max_steps : OptionalStepCaps,
     limit_train_batches : LimitTrainBatches,
     accumulate_grad_batches : 1..MaxAccum,
     num_gpus : 0..MaxGpus, num_processes : 1..MaxProcesses,
     tpu_cores : {None, Some(8)}]

\* the external trainer's defaults for everything but the epoch and step limits
DefaultTrainers ==
    {tr \in Trainers :
        /\ tr.limit_train_batches = FloatLimit(1, 1)
        /\ tr.accumulate_grad_batches = 1
        /\ tr.num_gpus = 0 /\ tr.num_processes = 1 /\ tr.tpu_cores = None}

Models == {[kind |-> "model", lr |-> Scalar(3)],
           [kind |-> "model", lr |-> List(<<3, 4>>)]}

SentinelKeys == {"max_iters", "epochs", "steps_per_epoch", "max_steps"}

\* scheduler init arguments over the four inferred keys: absent, -1 or set
SentinelArgs ==
    UNION {[keys -> {Scalar(-1), Scalar(7)}] : keys \in SUBSET SentinelKeys}

\* scheduler init arguments with max_lr absent, a scalar and a list
MaxLrArgs ==
    {[max_iters |-> Scalar(-1)],
     [max_lr |-> Scalar(5), epochs |-> Scalar(-1), steps_per_epoch |-> Scalar(-1)],
     [max_lr |-> List(<<5, 6>>), epochs |-> Scalar(-1), steps_per_epoch |-> Scalar(-1)]}

Conf(spe, ms, me, oname, sname, sargs) ==
    [steps_per_epoch |-> spe, max_steps |-> ms, max_epochs |-> me,
     optimizer |-> [name |-> oname, init_args |-> [lr |-> Scalar(3)]],
     scheduler |-> [name |-> sname, init_args |-> sargs,
                    interval |-> "step", monitor |-> "val/loss"]]

\* configs for the resolution of the inferred fields: every combination of
\* the four scheduler keys, with the top-level fields all -1, all set, or mixed
ResolveConfs ==
    {Conf(t[1], t[2], t[3], "SGD", "OneCycleLR", a) :
        t \in {<<-1, -1, -1>>, <<11, 12, 13>>, <<-1, 12, -1>>, <<0, -1, 13>>},
        a \in SentinelArgs}

\* configs for the set-up: optimizer and scheduler named or not
SetupConfs ==
    {Conf(-1, -1, -1, o, s, a) :
        o \in {NoneName, "SGD"}, s \in {NoneName, "OneCycleLR"}, a \in MaxLrArgs}

\* configs handed to setup_optimization by hand
ManualConfs ==
    {Conf(-1, -1, -1, "Adam", NoneName, [max_iters |-> Scalar(-1)]),
     Conf(-1, 12, -1, NoneName, "CosineLR", [max_lr |-> Scalar(5), max_steps |-> Scalar(-1)])}

-----------------------------------------------------------------------------
(* losses.py: LOSS_REGISTRY and build_loss *)

\* lines 34, 68, 97: the classes this module registers
RegisteredLosses == {"LabelSmoothingCrossEntropy", "BinarySigmoidFocalLoss", "FocalLoss"}
\* names a user may register: one that torch.nn.modules.loss has too, one it has not
UserLosses == {"CrossEntropyLoss", "MyLoss"}
\* line 12: names found in torch.nn.modules.loss
torch_losses == {"CrossEntropyLoss", "MSELoss"}

\* lines 38-43, 77-82, 108-114: the keyword parameters of the registered
\* classes; the other constructors are outside this module
HasSignature(cls) == cls.from = "LOSS_REGISTRY" /\ cls.name \in RegisteredLosses
Signature(cls) ==
    CASE cls.name = "LabelSmoothingCrossEntropy" -> {"eps", "reduction", "weight"}
      [] cls.name = "BinarySigmoidFocalLoss" -> {"alpha", "gamma", "reduction"}
      [] cls.name = "FocalLoss" -> {"alpha", "gamma", "reduction", "eps"}

NoneValue == [t |-> "None", v |-> <<>>]
Tensor(s) == [t |-> "tensor", v |-> s]
NoClass == [from |-> "None", name |-> "None"]
NoKwargs == [k \in {} |-> NoneValue]
NoLoss == [resolved |-> NoClass, constructed |-> FALSE, kwargs |-> NoKwargs,
           loss |-> NoneObject]

\* lines 181-183: a weight that is present and not None becomes a float tensor
ConvertWeight(args) ==
    [k \in DOMAIN args |->
        IF k = "weight" /\ args[k] # NoneValue THEN Tensor(args[k].v) ELSE args[k]]

\* lines 185-194: the registry first, then torch.nn.modules.loss
ResolveLoss(name, registry) ==
    IF name \in registry THEN [from |-> "LOSS_REGISTRY", name |-> name]
    ELSE IF name \in torch_losses THEN [from |-> "torch_losses", name |-> name]
    ELSE NoClass

\* lines 196-201: instance(**args), or instance() when args is None
Construct(cls, kwargs) ==
    IF HasSignature(cls) /\ ~(DOMAIN kwargs \subseteq Signature(cls))
    THEN [err |-> "TypeError",
          ret |-> [resolved |-> cls, constructed |-> TRUE, kwargs |-> kwargs,
                   loss |-> NoneObject]]
    ELSE [err |-> "None",
          ret |-> [resolved |-> cls, constructed |-> TRUE, kwargs |-> kwargs,
                   loss |-> [kind |-> "loss", cls |-> cls, kwargs |-> kwargs]]]

\* The whole function.  A config is a mapping that may lack its keys; its
\* init_args is NoneValue or [t |-> "dict", v |-> <<mapping>>].
build_loss(config, registry) ==
    \* line 174
    IF "name" \notin DOMAIN config THEN [err |-> "AssertionError", ret |-> NoLoss]
    \* line 178: config["init_args"] on the plain dict
    ELSE IF "init_args" \notin DOMAIN config THEN [err |-> "KeyError", ret |-> NoLoss]
    ELSE LET args == config["init_args"]
             kwargs == IF args = NoneValue THEN NoKwargs ELSE ConvertWeight(args.v[1])
             cls == ResolveLoss(config["name"].v[1], registry)
         IN  \* line 190
             IF cls = NoClass THEN [err |-> "AssertionError", ret |-> NoLoss]
             ELSE Construct(cls, kwargs)

Name(n) == [t |-> "str", v |-> <<n>>]
Dict(m) == [t |-> "dict", v |-> <<m>>]

LossNames == RegisteredLosses \cup UserLosses \cup torch_losses
LossInitArgs ==
    {NoneValue,
     Dict(NoKwargs),
     Dict([gamma |-> Scalar(2)]),
     Dict([weight |-> NoneValue]),
     Dict([weight |-> List(<<1, 2>>)]),
     Dict([weight |-> List(<<1, 2>>), eps |-> Scalar(0)])}

\* a name with init_args null or a mapping, a name without init_args, and
\* a config without name
LossConfigs ==
    {[name |-> Name(n), init_args |-> a] : n \in LossNames, a \in LossInitArgs}
    \cup {[name |-> Name(n)] : n \in LossNames}
    \cup {[init_args |-> NoneValue]}

LossInit ==
    /\ LOSS_REGISTRY = RegisteredLosses
    /\ lossOp = "import" /\ lossConfig = [init_args |-> NoneValue]
    /\ lossErr = "None" /\ lossRet = NoLoss

\* LOSS_REGISTRY.register(): a name is registered once
Register ==
    \E n \in UserLosses \cup RegisteredLosses :
        /\ lossOp' = "register" /\ lossConfig' = [name |-> Name(n)]
        /\ lossRet' = NoLoss
        /\ IF n \in LOSS_REGISTRY
           THEN lossErr' = "DuplicateNameError" /\ UNCHANGED LOSS_REGISTRY
           ELSE lossErr' = "None" /\ LOSS_REGISTRY' = LOSS_REGISTRY \cup {n}

BuildLoss ==
    \E config \in LossConfigs :
        \E r \in {build_loss(config, LOSS_REGISTRY)} :
            /\ lossOp' = "build_loss" /\ lossConfig' = config
            /\ lossErr' = r.err /\ lossRet' = r.ret
            /\ UNCHANGED LOSS_REGISTRY

-----------------------------------------------------------------------------
(* losses.py: the forward of the registered losses *)

\* A float is a number of a grid of integers up to MaxFloat in size, an
\* infinity or NaN; arithmetic follows IEEE 754: a result beyond the
\* largest finite number is an infinity, inf - inf and inf * 0 are NaN.
PosInf == [k |-> "inf", n |-> 1]
NegInf == [k |-> "inf", n |-> -1]
NaN == [k |-> "nan", n |-> 0]
Fin(n) ==
    IF n > MaxFloat THEN PosInf
    ELSE IF n < -MaxFloat THEN NegInf
    ELSE [k |-> "fin", n |-> n]
Sign(n) == IF n > 0 THEN 1 ELSE IF n < 0 THEN -1 ELSE 0
fneg(a) == [a EXCEPT !.n = -@]
fadd(a, b) ==
    IF a.k = "nan" \/ b.k = "nan" THEN NaN
    ELSE IF a.k = "inf" /\ b.k = "inf" THEN (IF a.n = b.n THEN a ELSE NaN)
    ELSE IF a.k = "inf" THEN a
    ELSE IF b.k = "inf" THEN b
    ELSE Fin(a.n + b.n)
fmul(a, b) ==
    IF a.k = "nan" \/ b.k = "nan" THEN NaN
    ELSE IF a.k = "inf" \/ b.k = "inf"
    THEN (IF a.n = 0 \/ b.n = 0 THEN NaN
          ELSE [k |-> "inf", n |-> Sign(a.n) * Sign(b.n)])
    ELSE Fin(a.n * b.n)
\* a / d for a finite d > 0, rounded to the nearest number of the grid,
\* ties to even
fdiv(a, d) ==
    IF a.k # "fin" THEN a
    ELSE LET q == a.n \div d
             r == a.n % d
         IN  Fin(IF 2 * r < d THEN q
                 ELSE IF 2 * r > d THEN q + 1
                 ELSE IF q % 2 = 0 THEN q ELSE q + 1)
RECURSIVE fsum(_)
fsum(s) == IF s = <<>> THEN Fin(0) ELSE fadd(fsum(SubSeq(s, 1, Len(s) - 1)), s[Len(s)])

\* A float tensor is its rank and its values in rows: one row of one
\* value at rank 0, one row at rank 1.  An integer tensor of rank 0 or 1 is
\* its rank and the sequence of its values.
Tensor0(x) == [rank |-> 0, v |-> <<<<x>>>>]
Tensor1(s) == [rank |-> 1, v |-> <<s>>]
Tensor2(m) == [rank |-> 2, v |-> m]
IntTensor0(x) == [rank |-> 0, v |-> <<x>>]
IntTensor1(s) == [rank |-> 1, v |-> s]
shape(t) ==
    CASE t.rank = 0 -> <<>>
      [] t.rank = 1 -> <<Len(t.v[1])>>
      [] t.rank = 2 -> <<Len(t.v), Len(t.v[1])>>
\* f applied to every value of a tensor, and to the values of two tensors
\* of one shape
Map(t, f(_)) == [t EXCEPT !.v = [n \in 1..Len(t.v) |->
                                   [j \in 1..Len(t.v[n]) |-> f(t.v[n][j])]]]
Map2(t, u, f(_, _)) == [t EXCEPT !.v = [n \in 1..Len(t.v) |->
                                   [j \in 1..Len(t.v[n]) |-> f(t.v[n][j], u.v[n][j])]]]
NoError == [type |-> "None", line |-> 0]
Error(type, line) == [type |-> type, line |-> line]

\* F.log_softmax(input, dim=1) of one row: x - logsumexp(x).  The logits
\* of a row are equal to its maximum or at least MaxFloat below it, so
\* logsumexp(x) is max(x) + ln(number of maxima), and ln rounds to 0 for one
\* maximum and to 1 for 2 to 4 of them.  A row of -inf alone gives NaN.
log_softmax_row(x) ==
    LET IsMax(j) == \A i \in 1..Len(x) :
                        x[i].k = "inf" \/ (x[j].k = "fin" /\ x[i].n <= x[j].n)
        maxima == {j \in 1..Len(x) : IsMax(j)}
        top == x[CHOOSE j \in maxima : TRUE]
        logsumexp == IF top.k = "inf" THEN top
                     ELSE fadd(top, Fin(IF Cardinality(maxima) = 1 THEN 0 ELSE 1))
    IN  [j \in 1..Len(x) |-> fadd(x[j], fneg(logsumexp))]
log_softmax(t) == [n \in 1..Len(t.v) |-> log_softmax_row(t.v[n])]

\* F.nll_loss(log_preds, target, weight, reduction) for an (N, C) input:
\* -weight[t] * log_preds[n][t] for each sample, none, sum, or the mean
\* weighted by weight[t]
nll_loss(log_preds, targ, weight, reduction) ==
    IF targ.rank = 0 THEN [err |-> Error("IndexError", 63), loss |-> NoneObject]
    ELSE IF Len(log_preds) # Len(targ.v)
    THEN [err |-> Error("ValueError", 63), loss |-> NoneObject]
    ELSE IF \E n \in 1..Len(targ.v) : targ.v[n] + 1 > Len(log_preds[n])
    THEN [err |-> Error("IndexError", 63), loss |-> NoneObject]
    ELSE IF weight # NoneValue /\ \E n \in 1..Len(log_preds) :
                                      shape(weight) # <<Len(log_preds[n])>>
    THEN [err |-> Error("RuntimeError", 63), loss |-> NoneObject]
    ELSE IF reduction \notin {"none", "mean", "sum"}
    THEN [err |-> Error("ValueError", 63), loss |-> NoneObject]
    ELSE LET w(n) == IF weight = NoneValue THEN 1 ELSE weight.v[1][targ.v[n] + 1].n
             each == [n \in 1..Len(targ.v) |->
                         fneg(fmul(Fin(w(n)), log_preds[n][targ.v[n] + 1]))]
             total == [n \in 1..Len(targ.v) |-> w(n)]
             Sum[n \in 0..Len(total)] == IF n = 0 THEN 0 ELSE Sum[n - 1] + total[n]
         IN  [err |-> NoError,
              loss |-> CASE reduction = "none" -> Tensor1(each)
                         [] reduction = "sum" -> Tensor0(fsum(each))
                         [] reduction = "mean" ->
                                Tensor0(fdiv(fsum(each), Sum[Len(total)]))]

\* a tensor times a float, a tensor by a count, and the sum of two tensors
\* of one shape
Scaled(t, x) == Map(t, LAMBDA y : fmul(y, x))
Divided(t, d) == Map(t, LAMBDA y : fdiv(y, d))
Added(t, u) == Map2(t, u, fadd)

\* lines 54-65 (LabelSmoothingCrossEntropy.forward)
SmoothingTerm(self, log_preds) ==
    LET rows == [n \in 1..Len(log_preds) |-> fneg(fsum(log_preds[n]))]
    IN  IF self.reduction = "sum" THEN Tensor0(fsum(rows))
        ELSE IF self.reduction = "mean" THEN Tensor0(fdiv(fsum(rows), Len(rows)))
        ELSE Tensor1(rows)
LabelSmoothingCrossEntropy_forward(self, inp, targ) ==
    IF inp.rank < 2 THEN [err |-> Error("IndexError", 54), loss |-> NoneObject]
    ELSE LET c == shape(inp)[2]
             log_preds == log_softmax(inp)
             loss == SmoothingTerm(self, log_preds)
             nll == nll_loss(log_preds, targ, self.weight, self.reduction)
         IN  IF nll.err # NoError THEN nll
             ELSE [err |-> NoError,
                   loss |-> Added(Divided(Scaled(loss, Fin(self.eps)), c),
                                  Scaled(nll.loss, Fin(1 - self.eps)))]

\* core/nn/utils.maybe_convert_to_onehot(target, output): the (N, C)
\* one-hot tensor of class indices below C
maybe_convert_to_onehot(targ, C) ==
    IF \E n \in 1..Len(targ.v) : targ.v[n] + 1 > C
    THEN [err |-> Error("RuntimeError", 143), one_hot |-> <<>>]
    ELSE [err |-> NoError,
          one_hot |-> [n \in 1..Len(targ.v) |->
                          [j \in 1..C |-> IF j = targ.v[n] + 1 THEN 1 ELSE 0]]]

\* a loss of the focal computation of lines 140-150, by its shape
FocalValue(shp) == [kind |-> "focal_loss", shape |-> shp]

\* lines 125-162 (FocalLoss.forward)
FocalLoss_reduce_lenient(self, n) ==
    IF self.reduction \in {"mean", "sum"}
    THEN [err |-> NoError, loss |-> FocalValue(<<>>)]
    ELSE [err |-> NoError, loss |-> FocalValue(<<n>>)]
FocalLoss_reduce(self, n) ==
    IF self.reduction = "none" THEN [err |-> NoError, loss |-> FocalValue(<<n>>)]
    ELSE IF self.reduction = "mean" THEN [err |-> NoError, loss |-> FocalValue(<<>>)]
    ELSE IF self.reduction = "sum" THEN [err |-> NoError, loss |-> FocalValue(<<>>)]
    ELSE [err |-> Error("NotImplementedError", 159), loss |-> NoneObject]
FocalLoss_forward(self, inp, targ) ==
    IF ~(Len(shape(inp)) >= 2)
    THEN [err |-> Error("ValueError", 126), loss |-> NoneObject]
    ELSE IF targ.rank = 0
    THEN [err |-> Error("IndexError", 130), loss |-> NoneObject]
    ELSE IF shape(inp)[1] # Len(targ.v)
    THEN [err |-> Error("ValueError", 131), loss |-> NoneObject]
    ELSE LET n == shape(inp)[1]
             one_hot_targs == maybe_convert_to_onehot(targ, shape(inp)[2])
         IN  IF one_hot_targs.err # NoError
             THEN [err |-> one_hot_targs.err, loss |-> NoneObject]
             ELSE FocalLoss_reduce(self, n)

\* The inputs of a forward: logits that are 0, the least finite float or
\* -inf, in every shape up to 2 x 2, and class indices 0 and 1
LogitValues == {Fin(0), Fin(-MaxFloat), NegInf}
Lengths == {1, 2}
Inputs ==
    {Tensor0(x) : x \in LogitValues}
    \cup {Tensor1(x) : x \in UNION {[1..n -> LogitValues] : n \in Lengths}}
    \cup {Tensor2(x) : x \in UNION {[1..n -> [1..c -> LogitValues]] :
                                       n \in Lengths, c \in Lengths}}
Targets ==
    {IntTensor0(x) : x \in {0, 1}}
    \cup {IntTensor1(x) : x \in UNION {[1..n -> {0, 1}] : n \in Lengths}}
Reductions == {"none", "mean", "sum", "max"}
\* a weight per class: None, or 1 for class 0 and 2 for class 1
Weights == {NoneValue, Tensor1(<<Fin(1), Fin(2)>>)}
FocalLosses == {[cls |-> "FocalLoss", reduction |-> r] : r \in Reductions}
LabelSmoothingCrossEntropies ==
    {[cls |-> "LabelSmoothingCrossEntropy", eps |-> e, reduction |-> r, weight |-> w] :
        e \in {0, 1}, r \in Reductions, w \in Weights}

ForwardIdle ==
    /\ input = NoneObject /\ target = NoneObject
    /\ criterion = NoneObject
    /\ forwardErr = NoError /\ forwardRet = NoneObject

ForwardInit ==
    /\ input \in Inputs /\ target \in Targets
    /\ criterion = NoneObject
    /\ forwardErr = NoError /\ forwardRet = NoneObject

FocalLossForward ==
    \E self \in FocalLosses :
        \E r \in {FocalLoss_forward(self, input, target)} :
            /\ criterion' = self
            /\ forwardErr' = r.err /\ forwardRet' = r.loss
            /\ UNCHANGED <<input, target>>

LabelSmoothingCrossEntropyForward ==
    \E self \in LabelSmoothingCrossEntropies :
        \E r \in {LabelSmoothingCrossEntropy_forward(self, input, target)} :
            /\ criterion' = self
            /\ forwardErr' = r.err /\ forwardRet' = r.loss
            /\ UNCHANGED <<input, target>>

-----------------------------------------------------------------------------
(* collections/pandas.py: the dataframe helpers *)

\* A DataFrame is the sequence of its rows; a row maps "index" to its index
\* label and each column to its value.
Classes == {"cat", "dog"}
Positions(df) == 1..Len(df)
IndexLabels(df) == {df[i]["index"] : i \in Positions(df)}
Column(df, col) == [i \in Positions(df) |-> df[i][col]]
WithColumn(row, col, value) ==
    [c \in DOMAIN row \cup {col} |-> IF c = col THEN value ELSE row[c]]
Reindexed(df) == [i \in Positions(df) |-> [df[i] EXCEPT !["index"] = i - 1]]
Rotated(df, n) == [i \in Positions(df) |-> df[((i - 1 + n) % Len(df)) + 1]]

\* lines 39-65: one row per image found, its label the directory name;
\* shuffle samples all rows in another order and resets the index.  The
\* order the seed selects is one of the rotations.
folder2df(targets, shuffle, rotation) ==
    LET dataframe == [i \in 1..Len(targets) |->
                         [index |-> i - 1, image_id |-> i, target |-> Name(targets[i])]]
    IN  IF shuffle THEN Reindexed(Rotated(dataframe, rotation)) ELSE dataframe

\* sklearn's StratifiedKFold(n_splits).split(X, y) without shuffle.  Classes
\* are numbered by first appearance, y_order is y sorted by class, fold i
\* is allotted the y_order[i::n_splits] of each class, and the samples of a
\* class take their folds in order of appearance.
Encoded(y, i) == Cardinality({y[j] : j \in {j \in 1..Len(y) :
                     \E h \in 1..j : y[h] = y[j] /\ \A g \in 1..i : y[g] # y[j]}})
ClassCount(y, i) == Cardinality({j \in 1..Len(y) : y[j] = y[i]})
MinClassCount(y) == CHOOSE n \in {ClassCount(y, i) : i \in 1..Len(y)} :
                        \A i \in 1..Len(y) : n <= ClassCount(y, i)
\* the 0-based places of the class of y[i] in y_order
ClassPlaces(y, i) ==
    LET start == Cardinality({j \in 1..Len(y) : Encoded(y, j) < Encoded(y, i)})
    IN  start .. (start + ClassCount(y, i) - 1)
\* how many samples of the class of y[i] go to the folds below f
AllottedBelow(y, n_splits, i, f) ==
    Cardinality({p \in ClassPlaces(y, i) : p % n_splits < f})
\* the test fold of position i (1-based)
test_fold(y, n_splits, i) ==
    LET nth == Cardinality({j \in 1..(i - 1) : y[j] = y[i]})
    IN  CHOOSE f \in 0..(n_splits - 1) :
            /\ AllottedBelow(y, n_splits, i, f) <= nth
            /\ nth < AllottedBelow(y, n_splits, i, f + 1)

\* StratifiedKFold refuses fewer than 2 splits, more splits than samples,
\* and more splits than every class has members
StratifiedKFoldRefuses(y, n_splits) ==
    \/ n_splits < 2
    \/ n_splits > Len(y)
    \/ \A i \in 1..Len(y) : n_splits > ClassCount(y, i)

\* line 88 for all folds: data.loc[test_index, fold_column] = i looks the
\* positions of test_index up as index labels.  Setting through .loc with
\* a label that the index lacks raises KeyError.
AssignFolds(data, y, n_splits) ==
    IF \E i \in Positions(data) : (i - 1) \notin IndexLabels(data)
    THEN [err |-> "KeyError", ret |-> <<>>]
    ELSE [err |-> "None",
          ret |-> [i \in Positions(data) |->
                      WithColumn(data[i], "kfold",
                                 test_fold(y, n_splits, data[i]["index"] + 1))]]

\* lines 80-90, for label_column = "target" and the default fold_column
split_dataframe_into_stratified_folds(dataframe, n_splits) ==
    LET ys == Column(dataframe, "target")
        data == [i \in Positions(dataframe) |-> WithColumn(dataframe[i], "kfold", -1)]
    IN  IF StratifiedKFoldRefuses(ys, n_splits)
        THEN [err |-> "ValueError", ret |-> <<>>]
        ELSE AssignFolds(data, ys, n_splits)

\* lines 142-144: sklearn's train_test_split keeps the rows' index labels;
\* train holds the rows at the positions chosen, in their order
split_dataframe_train_test(dataframe, chosen) ==
    LET Pick(S) ==
            LET Nth(k) == CHOOSE i \in S : Cardinality({j \in S : j < i}) = k - 1
            IN  [k \in 1..Cardinality(S) |-> dataframe[Nth(k)]]
    IN  <<Pick(chosen), Pick(Positions(dataframe) \ chosen)>>

\* the rows of df at the positions S, in their order
RowsAt(df, S) ==
    LET Nth(k) == CHOOSE i \in S : Cardinality({j \in S : j < i}) = k - 1
    IN  [k \in 1..Cardinality(S) |-> df[Nth(k)]]
HasColumn(df, col) == \A i \in Positions(df) : col \in DOMAIN df[i]

\* lines 99-104, for split_column = "kfold": the rows whose fold differs
\* from split_idx and the rows whose fold equals it, each with a new
\* 0..n-1 index; a frame without the column raises KeyError
get_dataframe_fold_below(dataframe, split_idx) ==
    IF ~HasColumn(dataframe, "kfold")
    THEN [err |-> "KeyError", ret |-> <<>>]
    ELSE LET train_data == RowsAt(dataframe, {i \in Positions(dataframe) :
                                                 dataframe[i]["kfold"] < split_idx})
             valid_data == RowsAt(dataframe, {i \in Positions(dataframe) :
                                                 dataframe[i]["kfold"] = split_idx})
         IN  [err |-> "None",
              ret |-> <<Reindexed(train_data), Reindexed(valid_data)>>]
get_dataframe_fold(dataframe, split_idx) ==
    IF ~HasColumn(dataframe, "kfold")
    THEN [err |-> "KeyError", ret |-> <<>>]
    ELSE LET data == dataframe
             train_data == RowsAt(data, {i \in Positions(data) :
                                            data[i]["kfold"] # split_idx})
             valid_data == RowsAt(data, {i \in Positions(data) :
                                            data[i]["kfold"] = split_idx})
         IN  [err |-> "None",
              ret |-> <<Reindexed(train_data), Reindexed(valid_data)>>]

\* Python compares two str by their code points, the shorter first when it
\* is a prefix of the other
CodePoints == [cat |-> <<99, 97, 116>>, dog |-> <<100, 111, 103>>]
StrLess(a, b) ==
    LET x == CodePoints[a]
        y == CodePoints[b]
    IN  \E i \in 1..Len(y) :
            /\ \A j \in 1..(i - 1) : j <= Len(x) /\ x[j] = y[j]
            /\ i > Len(x) \/ x[i] < y[i]
IntValue(n) == [t |-> "int", v |-> <<n>>]
\* str(class_name) of a label value
str(value) == value.v[1]

\* Series.unique(): the distinct values in order of first appearance
unique(y) ==
    RowsAt(y, {i \in 1..Len(y) : \A j \in 1..(i - 1) : y[j] # y[i]})
\* sorted() of distinct str values
sorted(s) ==
    [k \in 1..Len(s) |->
        CHOOSE x \in {s[i] : i \in 1..Len(s)} :
            Cardinality({i \in 1..Len(s) : StrLess(str(s[i]), str(x))}) = k - 1]
enumerate(s) == [i \in 1..Len(s) |-> <<i - 1, s[i]>>]

\* lines 112-116, for label_column = "target"
get_dataset_labeling_byAppearance(dataframe) ==
    LET pairs == enumerate(unique(Column(dataframe, "target")))
    IN  [tag \in {str(pairs[i][2]) : i \in 1..Len(pairs)} |->
            (CHOOSE i \in 1..Len(pairs) : str(pairs[i][2]) = tag) - 1]
get_dataset_labeling(dataframe) ==
    LET pairs == enumerate(sorted(unique(Column(dataframe, "target"))))
    IN  [tag \in {str(pairs[i][2]) : i \in 1..Len(pairs)} |->
            pairs[CHOOSE i \in 1..Len(pairs) : str(pairs[i][2]) = tag][1]]

\* lines 128-134, for label_column = "target": the copy is rewritten and
\* returned; caller is the frame that was passed, as the call leaves it
dataframe_labels_2_int_inplace(dataframe, return_labelling) ==
    LET tag_to_labels == get_dataset_labeling(dataframe)
        data == [i \in Positions(dataframe) |->
                    [dataframe[i] EXCEPT !["target"] = IntValue(tag_to_labels[str(@)])]]
    IN  [caller |-> data,
         ret |-> IF return_labelling THEN <<data, tag_to_labels>> ELSE data]
dataframe_labels_2_int(dataframe, return_labelling) ==
    LET data == dataframe
        tag_to_labels == get_dataset_labeling(data)
        rewritten == [i \in Positions(data) |->
                         [data[i] EXCEPT !["target"] = IntValue(tag_to_labels[str(@)])]]
    IN  [caller |-> dataframe,
         ret |-> IF return_labelling THEN <<rewritten, tag_to_labels>> ELSE rewritten]

TargetLists == UNION {[1..n -> Classes] : n \in 1..MaxRows}

DataIdle ==
    /\ frame = <<>>
    /\ dataOp = "None" /\ dataArg = NoneObject /\ dataErr = "None" /\ dataRet = <<>>

\* the caller's frame comes from folder2df
DataInit ==
    /\ \E targets \in TargetLists, shuffle \in BOOLEAN, rotation \in 0..(MaxRows - 1) :
        /\ shuffle \/ rotation = 0
        /\ rotation < Len(targets)
        /\ frame = folder2df(targets, shuffle, rotation)
    /\ dataOp = "folder2df" /\ dataArg = NoneObject /\ dataErr = "None"
    /\ dataRet = <<>>

\* the caller goes on with the train part
SplitDataframeTrainTest ==
    \E chosen \in SUBSET Positions(frame) :
        /\ chosen # {} /\ chosen # Positions(frame)
        /\ \E r \in {split_dataframe_train_test(frame, chosen)} :
            /\ dataOp' = "split_dataframe_train_test"
            /\ dataArg' = [dataframe |-> frame, n_splits |-> 0]
            /\ dataErr' = "None" /\ dataRet' = r
            /\ frame' = r[1]

\* the caller goes on with the frame returned
SplitDataframeIntoStratifiedFolds ==
    \E n_splits \in 2..MaxFolds :
        \E r \in {split_dataframe_into_stratified_folds(frame, n_splits)} :
            /\ dataOp' = "split_dataframe_into_stratified_folds"
            /\ dataArg' = [dataframe |-> frame, n_splits |-> n_splits]
            /\ dataErr' = r.err /\ dataRet' = r.ret
            /\ frame' = IF r.err = "None" THEN r.ret ELSE frame

\* the caller keeps its frame
GetDataframeFold ==
    \E split_idx \in 0..MaxFolds :
        \E r \in {get_dataframe_fold(frame, split_idx)} :
            /\ dataOp' = "get_dataframe_fold"
            /\ dataArg' = [dataframe |-> frame, split_idx |-> split_idx]
            /\ dataErr' = r.err /\ dataRet' = r.ret
            /\ frame' = frame

GetDatasetLabeling ==
    \E r \in {get_dataset_labeling(frame)} :
        /\ dataOp' = "get_dataset_labeling"
        /\ dataArg' = [dataframe |-> frame]
        /\ dataErr' = "None" /\ dataRet' = r
        /\ frame' = frame

\* the caller's frame is what the call left of it
DataframeLabels2Int ==
    \E return_labelling \in BOOLEAN :
        \E r \in {dataframe_labels_2_int(frame, return_labelling)} :
            /\ dataOp' = "dataframe_labels_2_int"
            /\ dataArg' = [dataframe |-> frame, return_labelling |-> return_labelling]
            /\ dataErr' = "None" /\ dataRet' = r.ret
            /\ frame' = r.caller

-----------------------------------------------------------------------------
(* utils/logger.py: setup_logger *)

DEBUG == 10
INFO == 20
NOTSET == 0
LoggerNames == {"gale", "gale.data"}

\* A call is its positional arguments and its keyword arguments in the
\* order written.  line 43: distributed_rank is the one positional parameter.
Call(args, kwds) == [args |-> args, kwds |-> kwds]
Calls ==
    {Call(<<>>, <<>>), Call(<<0>>, <<>>), Call(<<1>>, <<>>),
     Call(<<>>, <<<<"distributed_rank", 0>>>>),
     Call(<<>>, <<<<"distributed_rank", 1>>>>),
     Call(<<>>, <<<<"color", 0>>>>),
     Call(<<>>, <<<<"level", INFO>>>>),
     Call(<<>>, <<<<"name", 0>>>>),
     Call(<<>>, <<<<"name", 1>>>>)}
\* the names that the values of the keyword name stand for
NameOf(n) == IF n = 0 THEN "gale" ELSE "gale.data"

HasKwd(call, key) == \E i \in DOMAIN call.kwds : call.kwds[i][1] = key
Kwd(call, key, default) ==
    IF HasKwd(call, key)
    THEN call.kwds[CHOOSE i \in DOMAIN call.kwds : call.kwds[i][1] = key][2]
    ELSE default
\* line 43: the parameters a call binds, with their defaults
distributed_rank(call) ==
    IF call.args # <<>> THEN call.args[1] ELSE Kwd(call, "distributed_rank", 0)
color(call) == Kwd(call, "color", 1) # 0
logger_name(call) == NameOf(Kwd(call, "name", 0))
level(call) == Kwd(call, "level", DEBUG)

\* functools._make_key: the positional arguments, then a mark and the
\* keyword items in call order; calls with the same parameters written in
\* another way have different keys
make_key(call) == <<call.args, call.kwds>>

\* lines 47-72, the body of setup_logger
setup_logger(lgs, call) ==
    LET formatter == IF color(call) THEN "_ColorfulFormatter" ELSE "plain_formatter"
        ch == [level |-> DEBUG, formatter |-> formatter, by |-> call]
    IN  [lgs EXCEPT ![logger_name(call)] =
            [level |-> level(call), propagate |-> FALSE,
             handlers |-> IF distributed_rank(call) = 0
                          THEN Append(@.handlers, ch) ELSE @.handlers]]

\* logging's loggers before any set-up
LoggerInit ==
    /\ loggers = [n \in LoggerNames |->
                     [level |-> NOTSET, propagate |-> TRUE, handlers |-> <<>>]]
    /\ lru_cache = {}
    /\ logCall = NoneObject
    /\ logRet = "None"

\* line 42: a call whose key the cache holds returns the cached logger and
\* the body does not run.  The process writes its calls in at most
\* MaxSetups ways.
SetupLogger ==
    \E call \in Calls :
        /\ logCall' = call
        /\ logRet' = logger_name(call)
        /\ IF make_key(call) \in lru_cache
           THEN UNCHANGED <<loggers, lru_cache>>
           ELSE /\ Cardinality(lru_cache) < MaxSetups
                /\ loggers' = setup_logger(loggers, call)
                /\ lru_cache' = lru_cache \cup {make_key(call)}

-----------------------------------------------------------------------------
(* The task: construction and its operations *)

\* lines 211-228, for the constructor arguments cfg and trainer
TaskInit(cfgs, trainers) ==
    /\ \E tr \in trainers :
        /\ _trainer = ifnone(tr, Noop)
        \* lines 225-228 test the attribute that line 218 has just set
        /\ is_restored = (ifnone(tr, Noop) = NoneObject)
    /\ _cfg \in cfgs
    /\ _train_dl = Noop
    /\ _model = Noop
    /\ _optimizer = Noop
    /\ _scheduler = Noop
    /\ op = "__init__" /\ arg = NoneObject /\ err = "None"
    /\ calls = <<>> /\ ret = NoneObject

\* a subclass's setup_training_data assigns the train loader
SetupTrainingData ==
    /\ _train_dl = Noop
    /\ _train_dl' \in DataLoaders
    /\ op' = "setup_training_data" /\ arg' = NoneObject /\ err' = "None"
    /\ calls' = <<>> /\ ret' = NoneObject
    /\ UNCHANGED <<_trainer, _cfg, _model, _optimizer, _scheduler, is_restored, nonTaskVars>>

\* a subclass assigns the model whose hypers.lr build_lr_scheduler reads
SetModel ==
    /\ _model = Noop
    /\ _model' \in Models
    /\ op' = "set_model" /\ arg' = NoneObject /\ err' = "None"
    /\ calls' = <<>> /\ ret' = NoneObject
    /\ UNCHANGED <<_trainer, _cfg, _train_dl, _optimizer, _scheduler, is_restored, nonTaskVars>>

NumTrainingSteps ==
    \E r \in {num_training_steps(_trainer, _train_dl)} :
        /\ op' = "num_training_steps" /\ arg' = NoneObject
        /\ err' = r.err /\ calls' = r.calls
        /\ ret' = [kind |-> r.kind, v |-> r.v]
        /\ UNCHANGED <<_trainer, _cfg, _train_dl, _model, _optimizer, _scheduler,
                       is_restored, nonTaskVars>>

ProcessOptimConfig ==
    /\ _cfg # NoneObject
    /\ \E r \in {process_optim_config(_cfg, _trainer, _train_dl)} :
        /\ op' = "process_optim_config" /\ arg' = _cfg
        /\ err' = r.err /\ calls' = r.calls
        /\ ret' = [kind |-> r.kind, v |-> r.v]
    /\ UNCHANGED <<_trainer, _cfg, _train_dl, _model, _optimizer, _scheduler,
                   is_restored, nonTaskVars>>

SetupOptimization ==
    \E conf \in {NoneObject} \cup ManualConfs :
        \E ctor \in {"None", "TypeError"} :
            \E r \in {setup_optimization(conf, ctor)} :
                /\ ctor \in SchedulerCtorOutcomes(r.optimizer)
                /\ _optimizer' = r.optimizer /\ _scheduler' = r.scheduler
                /\ op' = "setup_optimization" /\ arg' = r.conf
                /\ err' = r.err /\ calls' = r.calls /\ ret' = NoneObject
                /\ UNCHANGED <<_trainer, _cfg, _train_dl, _model, is_restored, nonTaskVars>>

ConfigureOptimizers ==
    \E ctor \in {"None", "TypeError"} :
        \E r \in {configure_optimizers(ctor)} :
            /\ ctor \in SchedulerCtorOutcomes(r.optimizer)
            /\ _optimizer' = r.optimizer /\ _scheduler' = r.scheduler
            /\ op' = "configure_optimizers" /\ arg' = r.conf
            /\ err' = r.err /\ calls' = r.calls /\ ret' = r.ret
            /\ UNCHANGED <<_trainer, _cfg, _train_dl, _model, is_restored, nonTaskVars>>

vars == <<taskVars, lossVars, dataVars, loggerVars, forwardVars>>

\* The life of one task, constructed with or without a trainer and with or
\* without an optimization namespace in its config.
Init ==
    /\ TaskInit(SetupConfs \cup {NoneObject}, DefaultTrainers \cup {NoneObject})
    /\ LossInit
    /\ DataIdle
    /\ LoggerInit
    /\ ForwardIdle

Next ==
    \/ SetupTrainingData
    \/ SetModel
    \/ ProcessOptimConfig
    \/ SetupOptimization
    \/ ConfigureOptimizers

Spec == Init /\ [][Next]_vars

\* The resolution of the inferred fields, over every trainer and every
\* combination of the inferred scheduler keys.
InitResolve ==
    /\ \/ TaskInit({c \in ResolveConfs :
                       c.scheduler.init_args = [k \in SentinelKeys |-> Scalar(-1)]},
                   Trainers)
       \/ TaskInit(ResolveConfs, DefaultTrainers)
    /\ LossInit
    /\ DataIdle
    /\ LoggerInit
    /\ ForwardIdle

NextResolve ==
    \/ SetupTrainingData
    \/ NumTrainingSteps
    \/ ProcessOptimConfig

SpecResolve == InitResolve /\ [][NextResolve]_vars

\* The loss registry and the builder, on a task that is left alone.
InitLoss ==
    /\ TaskInit({NoneObject}, {NoneObject})
    /\ LossInit
    /\ DataIdle
    /\ LoggerInit
    /\ ForwardIdle

NextLoss ==
    \/ Register /\ UNCHANGED nonLossVars
    \/ BuildLoss /\ UNCHANGED nonLossVars

SpecLoss == InitLoss /\ [][NextLoss]_vars

\* The dataframe helpers, on frames that folder2df made.
InitData ==
    /\ TaskInit({NoneObject}, {NoneObject})
    /\ LossInit
    /\ DataInit
    /\ LoggerInit
    /\ ForwardIdle

NextData ==
    \/ SplitDataframeTrainTest /\ UNCHANGED nonDataVars
    \/ SplitDataframeIntoStratifiedFolds /\ UNCHANGED nonDataVars
    \/ GetDataframeFold /\ UNCHANGED nonDataVars
    \/ GetDatasetLabeling /\ UNCHANGED nonDataVars
    \/ DataframeLabels2Int /\ UNCHANGED nonDataVars

SpecData == InitData /\ [][NextData]_vars

\* The logger set-up, called any number of times in one process.
InitLogger ==
    /\ TaskInit({NoneObject}, {NoneObject})
    /\ LossInit
    /\ DataIdle
    /\ LoggerInit
    /\ ForwardIdle

NextLogger == SetupLogger /\ UNCHANGED nonLoggerVars

SpecLogger == InitLogger /\ [][NextLogger]_vars

\* The forward of the losses, on every input.
InitForward ==
    /\ TaskInit({NoneObject}, {NoneObject})
    /\ LossInit
    /\ DataIdle
    /\ LoggerInit
    /\ ForwardInit

NextForward ==
    \/ FocalLossForward /\ UNCHANGED nonForwardVars
    \/ LabelSmoothingCrossEntropyForward /\ UNCHANGED nonForwardVars

SpecForward == InitForward /\ [][NextForward]_vars

-----------------------------------------------------------------------------
(* Properties of the resolution of the inferred fields (SpecResolve) *)

Called(name) == \E i \in DOMAIN calls : calls[i] = name
Returned(name) == op = name /\ err = "None"

\* the number of accelerator devices of a trainer
AcceleratorDevices(tr) ==
    Max(tr.num_gpus,
        Max(tr.num_processes, IF tr.tpu_cores = None THEN 0 ELSE Val(tr.tpu_cores)))

\* steps per epoch as documented: B // (accumulate_grad_batches * max(1, devices))
DocumentedStepsPerEpoch(tr, dl) ==
    dataset_size(tr, dl)
        \div (tr.accumulate_grad_batches * Max(1, AcceleratorDevices(tr)))

\* C1: with max_epochs unset and max_steps set on the trainer,
\* process_optim_config returns, and the max_epochs it resolves is
\* max_steps // steps_per_epoch; for max_steps = 1000, one gpu, no
\* accumulation and a loader of 500 batches it resolves steps_per_epoch = 500
\* and max_epochs = 2.
C1_MaxEpochsFromMaxSteps ==
    (/\ op = "process_optim_config"
     /\ _train_dl # Noop
     /\ _trainer.max_epochs = None /\ _trainer.max_steps # None
     /\ arg.max_epochs < 1 /\ arg.steps_per_epoch < 1)
    => /\ err = "None"
       /\ ret.v[1].max_epochs
              = Val(_trainer.max_steps) \div ret.v[1].steps_per_epoch
       /\ (/\ _trainer.max_steps = Some(1000)
           /\ _trainer.accumulate_grad_batches = 1
           /\ _trainer.num_gpus = 1 /\ _trainer.num_processes = 1
           /\ _trainer.tpu_cores = None
           /\ _trainer.limit_train_batches = FloatLimit(1, 1)
           /\ _train_dl.len = 500)
          => /\ ret.v[1].steps_per_epoch = 500
             /\ ret.v[1].max_epochs = 2

\* C2: the steps_per_epoch that num_training_steps returns and that
\* process_optim_config resolves is B // (accumulate_grad_batches *
\* max(1, accelerator devices)), B being the integer limit_train_batches
\* when non-zero, int(len(train_dl) * limit_train_batches) for a fraction,
\* and len(train_dl) otherwise.
C2_StepsPerEpochDividesByBatch ==
    /\ (Returned("num_training_steps") /\ ret.kind = "tuple")
       => ret.v[2] = DocumentedStepsPerEpoch(_trainer, _train_dl)
    /\ (Returned("process_optim_config") /\ arg.steps_per_epoch < 1)
       => ret.v[1].steps_per_epoch = DocumentedStepsPerEpoch(_trainer, _train_dl)

\* C3: with the trainer's max_steps below the estimate steps_per_epoch *
\* max_epochs, process_optim_config returns, the max_steps it resolves is
\* the trainer's cap, and steps_per_epoch is resolved to a concrete value.
C3_StepCapWins ==
    (/\ op = "process_optim_config"
     /\ _train_dl # Noop
     /\ _trainer.max_epochs # None /\ _trainer.max_steps # None
     /\ Val(_trainer.max_steps)
            < DocumentedStepsPerEpoch(_trainer, _train_dl) * Val(_trainer.max_epochs)
     /\ arg.max_steps < 1 /\ arg.steps_per_epoch < 1)
    => /\ err = "None"
       /\ ret.v[1].max_steps = Val(_trainer.max_steps)
       /\ ret.v[1].steps_per_epoch >= 0

\* the top-level field of a config that a scheduler key is inferred with
TopLevelFor(conf, key) ==
    CASE key = "max_iters" -> conf.max_steps
      [] key = "max_steps" -> conf.max_steps
      [] key = "epochs" -> conf.max_epochs
      [] key = "steps_per_epoch" -> conf.steps_per_epoch

\* the value inferred from the trainer for a scheduler key: what
\* num_training_steps returned, and the trainer's max_epochs (or
\* max_steps // steps when it has none)
InferredFor(tr, dl, key) ==
    LET r == num_training_steps(tr, dl).v
    IN  CASE key = "max_iters" -> r[1]
          [] key = "max_steps" -> r[1]
          [] key = "epochs" -> IF tr.max_epochs # None THEN Val(tr.max_epochs)
                               ELSE r[1] \div r[2]
          [] key = "steps_per_epoch" -> r[2]

SameSchedulerKeys ==
    DOMAIN ret.v[1].scheduler.init_args = DOMAIN arg.scheduler.init_args

\* C5 as stated: in the returned config every scheduler init argument among
\* max_iters, epochs, steps_per_epoch, max_steps that was -1 equals the
\* returned config's own top-level value, and every other one is unchanged.
C5_SentinelsEqualTopLevel ==
    Returned("process_optim_config") =>
        /\ SameSchedulerKeys
        /\ \A key \in DOMAIN arg.scheduler.init_args :
            IF key \in SentinelKeys /\ arg.scheduler.init_args[key] = Scalar(-1)
            THEN ret.v[1].scheduler.init_args[key]
                     = Scalar(TopLevelFor(ret.v[1], key))
            ELSE ret.v[1].scheduler.init_args[key] = arg.scheduler.init_args[key]

\* C5, amended: every such argument that was -1 equals the value inferred
\* from the trainer, which is the returned config's top-level value when
\* that top-level field was below 1 in the input; every other argument is
\* unchanged.
C5_SentinelsEqualInferred ==
    Returned("process_optim_config") =>
        /\ SameSchedulerKeys
        /\ \A key \in DOMAIN arg.scheduler.init_args :
            IF key \in SentinelKeys /\ arg.scheduler.init_args[key] = Scalar(-1)
            THEN /\ ret.v[1].scheduler.init_args[key]
                        = Scalar(InferredFor(_trainer, _train_dl, key))
                 /\ TopLevelFor(arg, key) < 1
                        => ret.v[1].scheduler.init_args[key]
                               = Scalar(TopLevelFor(ret.v[1], key))
            ELSE ret.v[1].scheduler.init_args[key] = arg.scheduler.init_args[key]

\* a returned config whose epochs was inferred while its top-level
\* max_epochs was kept as configured, and whose max_steps was left alone
C5_Witness ==
    /\ Returned("process_optim_config")
    /\ arg.max_epochs >= 1
    /\ DOMAIN arg.scheduler.init_args = {"epochs", "max_steps"}
    /\ arg.scheduler.init_args["epochs"] = Scalar(-1)
    /\ arg.scheduler.init_args["max_steps"] = Scalar(7)
    /\ ret.v[1].scheduler.init_args["epochs"] # Scalar(ret.v[1].max_epochs)
    /\ ret.v[1].scheduler.init_args["max_steps"] = Scalar(7)

-----------------------------------------------------------------------------
(* Properties of build_loss (SpecLoss) *)

\* the error of a name that is in neither namespace: the AssertionError of
\* line 190, which the specification's taxonomy calls UnknownLossError
UnknownLossError == "AssertionError"

\* C8: build_loss resolves a registered name to the registry's class, also
\* when torch.nn.modules.loss has the name, resolves an unregistered name
\* to torch.nn.modules.loss when it is there, and fails with
\* UnknownLossError when the name is in neither.
C8_RegistryFirstThenTorch ==
    (lossOp = "build_loss" /\ "name" \in DOMAIN lossConfig) =>
        LET name == lossConfig["name"].v[1]
        IN  IF name \in LOSS_REGISTRY
            THEN lossRet.resolved = [from |-> "LOSS_REGISTRY", name |-> name]
            ELSE IF name \in torch_losses
            THEN lossRet.resolved = [from |-> "torch_losses", name |-> name]
            ELSE lossErr = UnknownLossError /\ lossRet.resolved = NoClass

\* C9: for a config whose name resolves, build_loss with init_args absent
\* or null constructs the loss with no keyword arguments and returns it;
\* with a mapping it forwards the entries, weight converted to a float
\* tensor only when present and not None.
C9_InitArgsOptional ==
    (/\ lossOp = "build_loss" /\ "name" \in DOMAIN lossConfig
     /\ lossConfig["name"].v[1] \in LOSS_REGISTRY \cup torch_losses) =>
        IF "init_args" \notin DOMAIN lossConfig \/ lossConfig["init_args"] = NoneValue
        THEN /\ lossErr = "None"
             /\ lossRet.constructed /\ lossRet.kwargs = NoKwargs
             /\ lossRet.loss # NoneObject
        ELSE LET args == lossConfig["init_args"].v[1]
             IN  /\ lossRet.constructed
                 /\ DOMAIN lossRet.kwargs = DOMAIN args
                 /\ \A k \in DOMAIN args :
                     lossRet.kwargs[k] =
                         IF k = "weight" /\ args[k] # NoneValue
                         THEN Tensor(args[k].v) ELSE args[k]

-----------------------------------------------------------------------------
(* Properties of the dataframe helpers (SpecData) *)

WithoutColumn(row, col) == [c \in DOMAIN row \ {col} |-> row[c]]

\* frames whose index is the default 0..N-1
RangeIndexed(df) == \A i \in Positions(df) : df[i]["index"] = i - 1

\* C10: for a dataset of N records and a fold count k of at least 2 and at
\* most the size of the rarest class, split_dataframe_into_stratified_folds
\* returns the N records it was given, each with one fold id in 0..k-1:
\* none keeps -1 and none is added.
C10_FoldsPartitionTheDataset ==
    (/\ dataOp = "split_dataframe_into_stratified_folds"
     /\ dataArg.n_splits >= 2
     /\ dataArg.n_splits <= MinClassCount(Column(dataArg.dataframe, "target")))
    => /\ dataErr = "None"
       /\ Len(dataRet) = Len(dataArg.dataframe)
       /\ \A i \in 1..Len(dataRet) :
           /\ WithoutColumn(dataRet[i], "kfold")
                  = WithoutColumn(dataArg.dataframe[i], "kfold")
           /\ dataRet[i]["kfold"] \in 0..(dataArg.n_splits - 1)

\* the identifiers of the records of a frame
Identifiers(df) == {df[i]["image_id"] : i \in Positions(df)}
\* the position in df of the record that a row came from
Origin(df, row) == CHOOSE i \in Positions(df) : df[i]["image_id"] = row["image_id"]
\* part holds records of df unaltered but for the index, in the order of df
OrderedPartOf(part, df) ==
    /\ \A k \in Positions(part) :
        /\ part[k]["image_id"] \in Identifiers(df)
        /\ WithoutColumn(part[k], "index")
               = WithoutColumn(df[Origin(df, part[k])], "index")
    /\ \A j, k \in Positions(part) :
        j < k => Origin(df, part[j]) < Origin(df, part[k])

\* C11: for a dataset with a fold column and a fold id f,
\* get_dataframe_fold returns (train, validation): validation holds exactly
\* the records whose fold id is f, train exactly the others, no record is in
\* both, together they hold the records of the input, each once, and each
\* part keeps the order of the input.
C11_FoldSplitsTheDataset ==
    (dataOp = "get_dataframe_fold" /\ HasColumn(dataArg.dataframe, "kfold")) =>
        /\ dataErr = "None"
        /\ LET df == dataArg.dataframe
               train == dataRet[1]
               valid == dataRet[2]
           IN  /\ OrderedPartOf(train, df) /\ OrderedPartOf(valid, df)
               /\ \A k \in Positions(valid) : valid[k]["kfold"] = dataArg.split_idx
               /\ \A k \in Positions(train) : train[k]["kfold"] # dataArg.split_idx
               /\ Identifiers(train) \cap Identifiers(valid) = {}
               /\ Identifiers(train) \cup Identifiers(valid) = Identifiers(df)
               /\ Len(train) + Len(valid) = Len(df)

\* a fold taken out of the middle of a dataset, with records before and
\* after it left in train
C11_Witness ==
    /\ dataOp = "get_dataframe_fold" /\ dataErr = "None"
    /\ Len(dataRet[1]) >= 2 /\ Len(dataRet[2]) >= 2
    /\ \E i, j, k \in Positions(dataArg.dataframe) :
        /\ i < j /\ j < k
        /\ dataArg.dataframe[i]["kfold"] # dataArg.split_idx
        /\ dataArg.dataframe[j]["kfold"] = dataArg.split_idx
        /\ dataArg.dataframe[k]["kfold"] # dataArg.split_idx

\* the labels of a frame
LabelSet(df) == {str(df[i]["target"]) : i \in Positions(df)}
\* the index of a label set: each label to the number of labels before it
LexicographicIndex(labels) ==
    [l \in labels |-> Cardinality({m \in labels : StrLess(m, l)})]

\* C12: get_dataset_labeling maps the distinct labels of the label column
\* one-to-one onto 0..num_classes-1 in lexicographic order of the labels,
\* and the mapping is a function of the label set alone, whatever the order
\* and the multiplicities of the records.
C12_LabelIndexIsSortedBijection ==
    dataOp = "get_dataset_labeling" =>
        LET labels == LabelSet(dataArg.dataframe)
        IN  /\ DOMAIN dataRet = labels
            /\ {dataRet[l] : l \in labels} = 0..(Cardinality(labels) - 1)
            /\ \A l, m \in labels : dataRet[l] = dataRet[m] => l = m
            /\ \A l, m \in labels : StrLess(l, m) => dataRet[l] < dataRet[m]
            /\ dataRet = LexicographicIndex(labels)

\* a dataset whose first record has the lexicographically last label, and
\* whose labels repeat
C12_Witness ==
    /\ dataOp = "get_dataset_labeling"
    /\ Len(dataArg.dataframe) >= 3
    /\ Cardinality(LabelSet(dataArg.dataframe)) = 2
    /\ \E l \in LabelSet(dataArg.dataframe) :
        StrLess(l, str(dataArg.dataframe[1]["target"]))
    /\ dataRet[str(dataArg.dataframe[1]["target"])] = 1

\* the frame that holds the ids of the label index in place of the labels
EncodedFrame(df) ==
    [i \in Positions(df) |->
        [df[i] EXCEPT !["target"] =
            IntValue(LexicographicIndex(LabelSet(df))[str(df[i]["target"])])]]
ReturnedFrame == IF dataArg.return_labelling THEN dataRet[1] ELSE dataRet

\* C13 as stated: after dataframe_labels_2_int the caller's dataset holds
\* the integer ids of the label index in its label column.
C13_EncodesInPlace ==
    dataOp = "dataframe_labels_2_int" => frame = EncodedFrame(dataArg.dataframe)

\* C13, amended: dataframe_labels_2_int leaves the caller's dataset as it
\* was and returns a copy that holds the integer ids of the label index in
\* its label column (with the index, when return_labelling is set).
C13_EncodesACopy ==
    dataOp = "dataframe_labels_2_int" =>
        /\ frame = dataArg.dataframe
        /\ ReturnedFrame = EncodedFrame(dataArg.dataframe)
        /\ dataArg.return_labelling
               => dataRet[2] = LexicographicIndex(LabelSet(dataArg.dataframe))

\* a dataset of two labels was encoded and the caller's frame still holds
\* the label strings
C13_Witness ==
    /\ dataOp = "dataframe_labels_2_int"
    /\ Cardinality(LabelSet(dataArg.dataframe)) = 2
    /\ \E i \in Positions(ReturnedFrame) : ReturnedFrame[i]["target"] = IntValue(1)
    /\ \A i \in Positions(frame) : frame[i]["target"].t = "str"

-----------------------------------------------------------------------------
(* Properties of the set-up of one task (Spec) *)

\* C4: when process_optim_config runs, by itself or from setup_optimization,
\* on a trainer with neither max_epochs nor max_steps, it raises
\* ConfigurationError before num_training_steps is called, and the task's
\* optimizer and scheduler stay as they were.
C4_MissingBothIsFatal ==
    [][(/\ \E i \in DOMAIN calls' : calls'[i] = "process_optim_config"
        /\ _trainer # Noop
        /\ _trainer.max_epochs = None /\ _trainer.max_steps = None)
       => /\ err' = ConfigurationError
          /\ \A i \in DOMAIN calls' : calls'[i] # "num_training_steps"
          /\ _optimizer' = _optimizer /\ _scheduler' = _scheduler]_vars

\* setup_optimization failed so on a task that an earlier set-up without
\* config had left without optimizer
C4_Witness ==
    /\ op = "setup_optimization" /\ err = ConfigurationError
    /\ arg # NoneObject
    /\ _trainer # Noop
    /\ _trainer.max_epochs = None /\ _trainer.max_steps = None
    /\ _optimizer = NoneObject /\ _scheduler = NoneObject

\* C6: after a setup_optimization on a config whose optimizer name is None,
\* the task's optimizer and scheduler are both None and no scheduler was
\* constructed, whatever the scheduler name.
C6_NoOptimizerNoScheduler ==
    (Returned("setup_optimization") /\ arg # NoneObject
     /\ arg.optimizer.name = NoneName)
    => /\ _optimizer = NoneObject /\ _scheduler = NoneObject
       /\ ~Called("scheduler_ctor")

\* C7: a scheduler built from init arguments that hold max_lr was given the
\* model's hypers.lr as max_lr.
C7_MaxLrFromModel ==
    (_scheduler.kind = "scheduler"
     /\ "max_lr" \in DOMAIN _scheduler.scheduler.kwds)
    => _scheduler.scheduler.kwds["max_lr"] = _model.lr

\* a set-up has completed: the optimizer and the scheduler both left the
\* marker that the constructor set
SetUp == _optimizer # Noop /\ _scheduler # Noop

\* C17: configure_optimizers calls setup_optimization only while optimizer
\* and scheduler are both at the constructor's marker; a setup_optimization
\* that returns takes both off the marker for good; and a
\* configure_optimizers after that leaves both as they are and returns the
\* optimizer alone when the scheduler is None, else the pair
\* ([optimizer], [scheduler]).
C17_SetupOnce ==
    [][/\ (/\ op' = "configure_optimizers"
           /\ \E i \in DOMAIN calls' : calls'[i] = "setup_optimization")
          => (_optimizer = Noop /\ _scheduler = Noop)
       /\ (/\ \E i \in DOMAIN calls' : calls'[i] = "setup_optimization"
           /\ err' = "None")
          => SetUp'
       /\ SetUp => SetUp'
       /\ (op' = "configure_optimizers" /\ SetUp)
          => /\ _optimizer' = _optimizer /\ _scheduler' = _scheduler
             /\ err' = "None"
             /\ ret' = IF _scheduler = NoneObject
                       THEN [kind |-> "single", optimizer |-> _optimizer]
                       ELSE [kind |-> "pair", optimizers |-> <<_optimizer>>,
                             schedulers |-> <<_scheduler>>]]_vars

\* configure_optimizers returned the pair of an earlier set-up without
\* setting up again
C17_Witness ==
    /\ op = "configure_optimizers" /\ err = "None"
    /\ ~Called("setup_optimization")
    /\ ret.kind = "pair"
    /\ _optimizer.kind = "optimizer" /\ _scheduler.kind = "scheduler"

\* C18: a task constructed without a trainer is marked as being restored,
\* and a task constructed with a trainer is not.
C18_RestoredWithoutTrainer ==
    op = "__init__" => (is_restored <=> _trainer = Noop)

-----------------------------------------------------------------------------
(* Properties of setup_logger (SpecLogger) *)

\* C14: after any sequence of setup_logger calls, whatever way their rank,
\* color and level are written, every logger has at most one handler, and
\* each handler it has was attached by a call with distributed rank 0.
C14_AtMostOneHandler ==
    \A n \in LoggerNames :
        /\ Len(loggers[n].handlers) <= 1
        /\ \A i \in DOMAIN loggers[n].handlers :
            distributed_rank(loggers[n].handlers[i].by) = 0

-----------------------------------------------------------------------------
(* Properties of the forward of the losses (SpecForward) *)

\* the error of an unrecognised reduction: the NotImplementedError of line
\* 159, which the specification's taxonomy calls UnsupportedReductionError
UnsupportedReductionError == "NotImplementedError"

\* input and target both have a batch dimension and the sizes differ
BatchSizesDiffer(inp, targ) ==
    inp.rank >= 1 /\ targ.rank >= 1 /\ shape(inp)[1] # Len(targ.v)
\* an (N, C) input with N class indices below C
ValidPair(inp, targ) ==
    /\ inp.rank = 2 /\ targ.rank = 1
    /\ shape(inp)[1] = Len(targ.v)
    /\ \A n \in 1..Len(targ.v) : targ.v[n] < shape(inp)[2]

\* C15: FocalLoss.forward raises ValueError for an input of rank below 2
\* (from the rank check, also when the batch sizes differ too) and for
\* batch sizes that differ, raises UnsupportedReductionError on a valid
\* pair for every reduction other than none, mean and sum, and returns no
\* loss in these cases.
C15_FocalLossRejects ==
    (criterion # NoneObject /\ criterion.cls = "FocalLoss") =>
        /\ input.rank < 2
               => forwardErr = Error("ValueError", 126) /\ forwardRet = NoneObject
        /\ (input.rank >= 2 /\ BatchSizesDiffer(input, target))
               => forwardErr = Error("ValueError", 131) /\ forwardRet = NoneObject
        /\ (ValidPair(input, target)
            /\ criterion.reduction \notin {"none", "mean", "sum"})
               => /\ forwardErr.type = UnsupportedReductionError
                  /\ forwardRet = NoneObject
        /\ (ValidPair(input, target)
            /\ criterion.reduction \in {"none", "mean", "sum"})
               => forwardErr = NoError /\ forwardRet # NoneObject

\* a valid pair was refused for its reduction alone
C15_Witness ==
    /\ criterion # NoneObject /\ criterion.cls = "FocalLoss"
    /\ ValidPair(input, target) /\ shape(input) = <<2, 2>>
    /\ criterion.reduction = "max"
    /\ forwardErr.type = UnsupportedReductionError

\* C16: on a valid pair (with a weight, if any, per class) and for each
\* reduction of none, mean and sum, LabelSmoothingCrossEntropy with eps = 0
\* returns the plain cross-entropy, the NLL of the log-softmax with the
\* same weight and reduction.
C16_ZeroEpsIsCrossEntropy ==
    (/\ criterion # NoneObject /\ criterion.cls = "LabelSmoothingCrossEntropy"
     /\ criterion.eps = 0 /\ criterion.reduction \in {"none", "mean", "sum"}
     /\ ValidPair(input, target)
     /\ criterion.weight # NoneValue
            => shape(criterion.weight) = <<shape(input)[2]>>)
    => /\ forwardErr = NoError
       /\ forwardRet = nll_loss(log_softmax(input), target,
                                criterion.weight, criterion.reduction).loss

====
